---- MODULE Spec2Model ----
(***************************************************************************)
(* River water quality dashboard (dashboard.py): the CSV loader, the two   *)
(* reactive callbacks and the module-level start-up load, as one state     *)
(* machine.  The disk is the set of CSV files present; a table is a record *)
(* of its columns, its index and its record count.                         *)
(***************************************************************************)
EXTENDS Integers, Sequences, FiniteSets, TLC

VARIABLES
    pc,                     \* "import" | "exited" | "serving" | "open"
    disk,                   \* the CSV files present in the working directory
    module_tables,          \* the eight module-level names bound at line 64
    sungai_selector,        \* value of the river dropdown
    dataset_selector,       \* value of the dataset dropdown
    visualization_selector, \* value of the visualization dropdown
    time_range_selector,    \* value of the granularity dropdown
    parameter_options,      \* options of the parameter dropdown
    parameter_selector,     \* value of the parameter dropdown
    n_clicks,               \* n_clicks of the display button
    response,               \* what the last update_content call returned or raised
    load_calls              \* number of load_data calls made so far

vars == <<pc, disk, module_tables, sungai_selector, dataset_selector,
          visualization_selector, time_range_selector, parameter_options,
          parameter_selector, n_clicks, response, load_calls>>

selectors == <<sungai_selector, dataset_selector, visualization_selector,
               time_range_selector, parameter_options, parameter_selector>>

----------------------------------------------------------------------------
(* Bounds of the model *)

\* a session is followed up to this many presses of the display button
MaxClicks == 1

----------------------------------------------------------------------------
(* Python values *)

None == "None"

Rivers == {"KualaSG", "Bilut", "Kechau"}
Datasets == {"raw", "cleaned"}
Visualizations == {"table", "histogram", "trend"}
TimeRanges == {"daily", "weekly", "monthly"}

\* lines 9-12
KualaSG_variables ==
    [raw     |-> <<"time", "PH_Sensor", "ORP_Sensor", "TR_Sensor", "CT_Sensor",
                   "TDS_Sensor", "NH_SEnsor", "DO_Sensor", "COD_Sensor", "BOD_Sensor">>,
     cleaned |-> <<"Timestamp", "PH_Sensor", "ORP_Sensor", "TR_Sensor", "CT_Sensor",
                   "DO_Sensor">>]

\* lines 13-16
Bilut_variables ==
    [raw     |-> <<"time", "PH_Sensor", "ORP_Sensor", "CT_Sensor", "TDS_Sensor",
                   "NH_sensor", "COD_Sensor", "DO_Sensor", "BOD_Sensor", "TR_Sensor">>,
     cleaned |-> <<"Timestamp", "PH_Sensor", "ORP_Sensor", "CT_Sensor", "TDS_Sensor",
                   "NH_sensor", "TR_Sensor">>]

\* lines 17-20
Kechau_variables ==
    [raw     |-> <<"time", "Ph_Sensor", "ORP_Sensor", "CT_Sensor", "TDS_Sensor",
                   "NH_Sensor", "DO_Sensor", "TR_Sensor", "BOD_Sensor", "COD_Sensor">>,
     cleaned |-> <<"Timestamp", "ORP_Sensor", "CT_Sensor", "TDS_Sensor", "NH_Sensor">>]

\* a cleaned column spelled differently from the raw column it names
custom_variables_typo ==
    [r \in Rivers |->
        CASE r = "KualaSG" -> KualaSG_variables
          [] r = "Bilut"   -> [Bilut_variables EXCEPT !.cleaned[6] = "NH_Sensor"]
          [] r = "Kechau"  -> Kechau_variables]

\* custom_variables, lines 8-21: river -> dataset -> declared columns
custom_variables ==
    [r \in Rivers |->
        CASE r = "KualaSG" -> KualaSG_variables
          [] r = "Bilut"   -> Bilut_variables
          [] r = "Kechau"  -> Kechau_variables]

\* the spelling of a column name, character by character
Spell(name) ==
    CASE name = "time"       -> <<"t","i","m","e">>
      [] name = "Timestamp"  -> <<"T","i","m","e","s","t","a","m","p">>
      [] name = "PH_Sensor"  -> <<"P","H","_","S","e","n","s","o","r">>
      [] name = "Ph_Sensor"  -> <<"P","h","_","S","e","n","s","o","r">>
      [] name = "ORP_Sensor" -> <<"O","R","P","_","S","e","n","s","o","r">>
      [] name = "TR_Sensor"  -> <<"T","R","_","S","e","n","s","o","r">>
      [] name = "CT_Sensor"  -> <<"C","T","_","S","e","n","s","o","r">>
      [] name = "TDS_Sensor" -> <<"T","D","S","_","S","e","n","s","o","r">>
      [] name = "NH_SEnsor"  -> <<"N","H","_","S","E","n","s","o","r">>
      [] name = "NH_sensor"  -> <<"N","H","_","s","e","n","s","o","r">>
      [] name = "NH_Sensor"  -> <<"N","H","_","S","e","n","s","o","r">>
      [] name = "DO_Sensor"  -> <<"D","O","_","S","e","n","s","o","r">>
      [] name = "COD_Sensor" -> <<"C","O","D","_","S","e","n","s","o","r">>
      [] name = "BOD_Sensor" -> <<"B","O","D","_","S","e","n","s","o","r">>

UpperCase == <<"A","B","C","D","E","F","G","H","I","J","K","L","M",
               "N","O","P","Q","R","S","T","U","V","W","X","Y","Z">>
LowerCase == <<"a","b","c","d","e","f","g","h","i","j","k","l","m",
               "n","o","p","q","r","s","t","u","v","w","x","y","z">>

\* str.lower() on a spelled string
Lower(s) ==
    [i \in 1..Len(s) |->
        IF \E k \in 1..Len(UpperCase) : UpperCase[k] = s[i]
        THEN LowerCase[CHOOSE k \in 1..Len(UpperCase) : UpperCase[k] = s[i]]
        ELSE s[i]]

\* Python's  sub in s  on spelled strings
Contains(s, sub) ==
    \E i \in 0..(Len(s) - Len(sub)) :
        \A j \in 1..Len(sub) : s[i + j] = sub[j]

\* elements of a sequence
Range(s) == {s[i] : i \in 1..Len(s)}

\* every column name a schema declares
DeclaredColumns == UNION {Range(custom_variables[r][d]) : r \in Rivers, d \in Datasets}

\* line 37: the declared names for which  'time' in col.lower()  holds
TimeColumns == {col \in DeclaredColumns : Contains(Lower(Spell(col)), <<"t","i","m","e">>)}

\* line 37:  'time' in col.lower()
IsTimeColumn(col) == col \in TimeColumns

----------------------------------------------------------------------------
(* The data loader, lines 24-60 *)

\* lines 25-26: f"{river}_Raw.csv" and f"{river}_Cleaned.csv"
raw_file_path(river) == <<river, "_Raw.csv">>
cleaned_file_path(river) == <<river, "_Cleaned.csv">>

Files == {raw_file_path(r) : r \in Rivers} \cup {cleaned_file_path(r) : r \in Rivers}

\* The CSV files of the working directory: the header of a file is the declared
\* schema of its river and dataset, and the files differ in their record counts.
CsvHeader(river, dataset) == custom_variables[river][dataset]
CsvRecords(river, dataset) ==
    CASE river = "KualaSG" -> IF dataset = "raw" THEN 3 ELSE 2
      [] river = "Bilut"   -> IF dataset = "raw" THEN 2 ELSE 1
      [] river = "Kechau"  -> IF dataset = "raw" THEN 1 ELSE 0

\* pd.read_csv(path, usecols=...), lines 29-30: a frame with a default index
read_csv(river, dataset) ==
    [river   |-> river,
     dataset |-> dataset,
     columns |-> SelectSeq(CsvHeader(river, dataset),
                           LAMBDA c : c \in Range(custom_variables[river][dataset])),
     index   |-> None,
     records |-> CsvRecords(river, dataset),
     rule    |-> None]

\* line 37: every column whose lower-cased name contains 'time' becomes "Timestamp"
rename(df) ==
    [df EXCEPT !.columns =
        [i \in 1..Len(df.columns) |->
            IF IsTimeColumn(df.columns[i]) THEN "Timestamp" ELSE df.columns[i]]]

\* lines 49-50: df.set_index("Timestamp", inplace=True)
set_index(df) ==
    [df EXCEPT !.index = "Timestamp",
               !.columns = SelectSeq(df.columns, LAMBDA c : c # "Timestamp")]

\* lines 52-58: df.resample(rule).mean(numeric_only=True); every column was
\* coerced to numeric at lines 43-46, so every column is kept
resample(df, rule) == [df EXCEPT !.rule = rule]

\* lines 28-34: both reads are inside one try; either missing file gives (None, None)
\* lines 36-60: otherwise the eight tables
load_data(river, files) ==
    IF raw_file_path(river) \notin files \/ cleaned_file_path(river) \notin files
    THEN <<None, None>>
    ELSE LET df_raw     == set_index(rename(read_csv(river, "raw")))
             df_cleaned == set_index(read_csv(river, "cleaned"))
         IN  <<df_raw, df_cleaned,
               resample(df_raw, "D"), resample(df_raw, "W"), resample(df_raw, "ME"),
               resample(df_cleaned, "D"), resample(df_cleaned, "W"),
               resample(df_cleaned, "ME")>>

\* a, b, c, d, e, f, g, h = <tuple>: binding eight names needs eight values
Unpacks(t) == Len(t) = 8

----------------------------------------------------------------------------
(* The callbacks, lines 136-167 *)

\* line 63
selected_river == "KualaSG"

\* the slice of line 141 left out: every declared column is offered
update_parameter_options_unsliced(river, dataset) ==
    LET parameters == custom_variables[river][dataset]
    IN  [i \in 1..Len(parameters) |->
            [label |-> parameters[i], value |-> parameters[i]]]

\* lines 140-142: the declared columns after the first, as dropdown options
update_parameter_options(river, dataset) ==
    LET parameters == Tail(custom_variables[river][dataset])
    IN  [i \in 1..Len(parameters) |->
            [label |-> parameters[i], value |-> parameters[i]]]

OptionValues(options) == {options[i].value : i \in 1..Len(options)}

\* line 154
Placeholder == [kind |-> "Div", children |-> "Click 'Display Data' to show the results."]

Raise(exc) == [kind |-> "raise", exc |-> exc]

\* plotly express accepts a column of the frame, or no column at all (wide form)
HasColumn(df, name) == name = None \/ name \in Range(df.columns) \/ name = df.index

\* line 157
SelectedFrame(tables, dataset) == IF dataset = "raw" THEN tables[1] ELSE tables[2]

\* the trend read from the resampled cleaned tables
TrendFrame_cleaned(tables, time_range) ==
    CASE time_range = "daily"   -> tables[6]
      [] time_range = "weekly"  -> tables[7]
      [] time_range = "monthly" -> tables[8]

\* line 158
TrendFrame(tables, time_range) ==
    CASE time_range = "daily"   -> tables[3]
      [] time_range = "weekly"  -> tables[4]
      [] time_range = "monthly" -> tables[5]

\* line 161: data is df.reset_index() (the index becomes the first column again),
\* columns are built from df.columns
DataTable(df) ==
    [kind    |-> "DataTable",
     data    |-> [keys |-> <<df.index>> \o df.columns, records |-> df.records,
                  river |-> df.river, dataset |-> df.dataset],
     columns |-> [i \in 1..Len(df.columns) |->
                    [name |-> df.columns[i], id |-> df.columns[i]]]]

\* line 164
Histogram(df, parameter) ==
    IF HasColumn(df, parameter)
    THEN [kind |-> "Graph", figure |-> "histogram", data_frame |-> df,
          x |-> parameter, y |-> None]
    ELSE Raise("ValueError")

\* line 167
Line(df_trend, parameter) ==
    IF HasColumn(df_trend, parameter)
    THEN [kind |-> "Graph", figure |-> "line", data_frame |-> df_trend,
          x |-> df_trend.index, y |-> parameter]
    ELSE Raise("ValueError")

\* the module-level tables of line 64 used when they are bound
LocalTables_global(river, files, globals) ==
    IF Unpacks(globals) THEN globals ELSE load_data(river, files)

\* line 156: the tables update_content works on are its own locals, bound from a
\* fresh load_data call; the module-level names of line 64 are shadowed
LocalTables(river, files, globals) == load_data(river, files)

\* lines 156-167: what update_content returns or raises once it has the tables
Render(tables, dataset, visualization, time_range, parameter) ==
    IF ~Unpacks(tables)
    THEN Raise("ValueError")
    ELSE CASE visualization = "table" ->
                DataTable(SelectedFrame(tables, dataset))
           [] visualization = "histogram" ->
                Histogram(SelectedFrame(tables, dataset), parameter)
           [] visualization = "trend" ->
                Line(TrendFrame(tables, time_range), parameter)

\* the test of line 153 left out: the loader runs on every call
update_content_unguarded(clicks, river, dataset, visualization, time_range, parameter, files, globals) ==
    [result |-> Render(LocalTables(river, files, globals), dataset, visualization,
                       time_range, parameter),
     loads  |-> 1]

\* lines 152-167: the result of the call and the number of load_data calls it made
update_content(clicks, river, dataset, visualization, time_range, parameter, files, globals) ==
    IF clicks = 0
    THEN [result |-> Placeholder, loads |-> 0]
    ELSE [result |-> Render(LocalTables(river, files, globals), dataset, visualization,
                            time_range, parameter),
          loads  |-> 1]

----------------------------------------------------------------------------
(* The process *)

NoResponse == [kind |-> "none"]

\* load_data reads the two files of one river, the raw one first: one absent file
\* reaches each of its outcomes, so the disk lacks at most one file at a time
Disks == {Files} \cup {Files \ {file} : file \in Files}

\* the session is followed until the last press of the button the model allows
InSession == pc = "open" /\ n_clicks < MaxClicks

Init ==
    /\ pc = "import"
    /\ disk \in Disks
    /\ module_tables = <<>>
    /\ sungai_selector = selected_river
    /\ dataset_selector = "raw"
    /\ visualization_selector = "table"
    /\ time_range_selector = "daily"
    /\ parameter_options = <<>>
    /\ parameter_selector = None
    /\ n_clicks = 0
    /\ response = NoResponse
    /\ load_calls = 0

\* lines 63-64: the module-level load; binding eight names to (None, None) raises
\* ValueError while the module is imported, and the interpreter exits
ModuleLoad ==
    /\ pc = "import"
    /\ LET tables == load_data(selected_river, disk)
       IN  /\ module_tables' = tables
           /\ pc' = IF Unpacks(tables) THEN "serving" ELSE "exited"
    /\ load_calls' = load_calls + 1
    /\ UNCHANGED <<disk, selectors, n_clicks, response>>

\* the page is opened: both callbacks fire once with the layout's values
\* (lines 78, 92, 107, 114, 122, 129)
PageLoad ==
    /\ pc = "serving"
    /\ pc' = "open"
    /\ parameter_options' = update_parameter_options(sungai_selector, dataset_selector)
    /\ LET call == update_content(n_clicks, sungai_selector, dataset_selector,
                                   visualization_selector, time_range_selector,
                                   parameter_selector, disk, module_tables)
       IN  /\ response' = call.result
           /\ load_calls' = load_calls + call.loads
    /\ UNCHANGED <<disk, module_tables, sungai_selector, dataset_selector,
                   visualization_selector, time_range_selector, parameter_selector,
                   n_clicks>>

\* The value of the parameter dropdown after its options were replaced.  The
\* callback of lines 136-142 has one Output, the options; the value is left to
\* the dropdown component (line 114), which keeps it, or drops a value that is
\* no longer among the options, depending on the release of the component.
ValuesAfter(value, options) ==
    {value} \cup (IF value \in OptionValues(options) THEN {} ELSE {None})

SelectRiver(river) ==
    /\ InSession
    /\ river # sungai_selector
    /\ sungai_selector' = river
    /\ parameter_options' = update_parameter_options(river, dataset_selector)
    /\ parameter_selector' \in ValuesAfter(parameter_selector, parameter_options')
    /\ UNCHANGED <<pc, disk, module_tables, dataset_selector, visualization_selector,
                   time_range_selector, n_clicks, response, load_calls>>

SelectDataset(dataset) ==
    /\ InSession
    /\ dataset # dataset_selector
    /\ dataset_selector' = dataset
    /\ parameter_options' = update_parameter_options(sungai_selector, dataset)
    /\ parameter_selector' \in ValuesAfter(parameter_selector, parameter_options')
    /\ UNCHANGED <<pc, disk, module_tables, sungai_selector, visualization_selector,
                   time_range_selector, n_clicks, response, load_calls>>

SelectVisualization(visualization) ==
    /\ InSession
    /\ visualization # visualization_selector
    /\ visualization_selector' = visualization
    /\ UNCHANGED <<pc, disk, module_tables, sungai_selector, dataset_selector,
                   time_range_selector, parameter_options, parameter_selector,
                   n_clicks, response, load_calls>>

SelectTimeRange(time_range) ==
    /\ InSession
    /\ time_range # time_range_selector
    /\ time_range_selector' = time_range
    /\ UNCHANGED <<pc, disk, module_tables, sungai_selector, dataset_selector,
                   visualization_selector, parameter_options, parameter_selector,
                   n_clicks, response, load_calls>>

\* the user picks one of the options the parameter dropdown offers
SelectParameter(parameter) ==
    /\ InSession
    /\ parameter \in OptionValues(parameter_options)
    /\ parameter # parameter_selector
    /\ parameter_selector' = parameter
    /\ UNCHANGED <<pc, disk, module_tables, sungai_selector, dataset_selector,
                   visualization_selector, time_range_selector, parameter_options,
                   n_clicks, response, load_calls>>

\* the display button is pressed: update_content runs with the selectors as State
Click ==
    /\ InSession
    /\ n_clicks' = n_clicks + 1
    /\ LET call == update_content(n_clicks', sungai_selector, dataset_selector,
                                   visualization_selector, time_range_selector,
                                   parameter_selector, disk, module_tables)
       IN  /\ response' = call.result
           /\ load_calls' = load_calls + call.loads
    /\ UNCHANGED <<pc, disk, module_tables, selectors>>

\* the environment removes or restores a CSV file
FileRemoved(file) ==
    /\ pc # "exited"
    /\ n_clicks < MaxClicks
    /\ file \in disk
    /\ disk \ {file} \in Disks
    /\ disk' = disk \ {file}
    /\ UNCHANGED <<pc, module_tables, selectors, n_clicks, response, load_calls>>

FileRestored(file) ==
    /\ pc # "exited"
    /\ n_clicks < MaxClicks
    /\ file \in Files \ disk
    /\ disk' = disk \cup {file}
    /\ UNCHANGED <<pc, module_tables, selectors, n_clicks, response, load_calls>>

Parameters == DeclaredColumns \ TimeColumns

Next ==
    \/ ModuleLoad
    \/ PageLoad
    \/ \E river \in Rivers : SelectRiver(river)
    \/ \E dataset \in Datasets : SelectDataset(dataset)
    \/ \E visualization \in Visualizations : SelectVisualization(visualization)
    \/ \E time_range \in TimeRanges : SelectTimeRange(time_range)
    \/ \E parameter \in Parameters : SelectParameter(parameter)
    \/ Click
    \/ \E file \in Files : FileRemoved(file)
    \/ \E file \in Files : FileRestored(file)

Spec == Init /\ [][Next]_vars

----------------------------------------------------------------------------
(* Properties *)

\* the declared columns of a river and dataset without the time column
DeclaredParameters(river, dataset) ==
    SelectSeq(custom_variables[river][dataset], LAMBDA c : ~IsTimeColumn(c))

\* both CSV files of a river are on the disk
FilesPresent(river) ==
    raw_file_path(river) \in disk /\ cleaned_file_path(river) \in disk

\* this step is a press of the display button
Pressed == n_clicks' = n_clicks + 1

\* the resampling rule behind each granularity (lines 52-54, 158)
RuleOf(time_range) ==
    CASE time_range = "daily"   -> "D"
      [] time_range = "weekly"  -> "W"
      [] time_range = "monthly" -> "ME"

\* C1: a press of the display button while a CSV file of the selected river is
\* missing completes without raising: update_content returns a rendering.
C1_MissingFileRendersNoData ==
    [][(Pressed /\ ~FilesPresent(sungai_selector)) => response'.kind # "raise"]_vars

\* C2: for every river, when only its cleaned file is missing load_data still
\* returns the loaded raw table, and when only its raw file is missing it still
\* returns the loaded cleaned table.
C2_PartialLoad ==
    \A r \in Rivers :
        LET tables == load_data(r, disk)
        IN  /\ (raw_file_path(r) \in disk /\ cleaned_file_path(r) \notin disk)
                => (Unpacks(tables) /\ tables[1].river = r /\ tables[1].dataset = "raw")
            /\ (cleaned_file_path(r) \in disk /\ raw_file_path(r) \notin disk)
                => (Unpacks(tables) /\ tables[2].river = r
                    /\ tables[2].dataset = "cleaned")

\* C3: whatever CSV files are present or missing, the process never exits:
\* start-up and every later selection and press leave it running.
C3_ProcessKeepsRunning == pc # "exited"

\* the first declared column of every schema is a time column, and what
\* update_parameter_options returns for it is the schema without time columns
TimeColumnFirst ==
    \A r \in Rivers, d \in Datasets :
        /\ IsTimeColumn(custom_variables[r][d][1])
        /\ update_parameter_options(r, d) =
              [i \in 1..Len(DeclaredParameters(r, d)) |->
                  [label |-> DeclaredParameters(r, d)[i],
                   value |-> DeclaredParameters(r, d)[i]]]

\* C4: the options of the parameter dropdown are exactly the declared columns of
\* the selected river and dataset with the time column removed, in declared
\* order; the first declared column of every schema is its only time column.
C4_ParameterOptions ==
    /\ TimeColumnFirst
    /\ pc = "open" =>
          parameter_options =
             [i \in 1..Len(DeclaredParameters(sungai_selector, dataset_selector)) |->
                 [label |-> DeclaredParameters(sungai_selector, dataset_selector)[i],
                  value |-> DeclaredParameters(sungai_selector, dataset_selector)[i]]]

C4_Witness ==
    /\ pc = "open"
    /\ sungai_selector = "Kechau"
    /\ dataset_selector = "cleaned"
    /\ parameter_options =
          <<[label |-> "ORP_Sensor", value |-> "ORP_Sensor"],
            [label |-> "CT_Sensor",  value |-> "CT_Sensor"],
            [label |-> "TDS_Sensor", value |-> "TDS_Sensor"],
            [label |-> "NH_Sensor",  value |-> "NH_Sensor"]>>

\* C5: the selected parameter is always unset or one of the options offered for
\* the current river and dataset.
C5_ParameterAmongOptions ==
    pc = "open" =>
        \/ parameter_selector = None
        \/ parameter_selector \in OptionValues(parameter_options)

\* C6: while the display button has not been pressed the output is the fixed
\* placeholder, whatever the selectors hold, and update_content has not called
\* the loader: the only load_data call is the one made at start-up.
C6_PlaceholderBeforeTrigger ==
    n_clicks = 0 =>
        /\ pc = "open" => response = Placeholder
        /\ pc # "open" => response = NoResponse
        /\ load_calls = IF pc = "import" THEN 0 ELSE 1

C6_Witness ==
    /\ pc = "open"
    /\ n_clicks = 0
    /\ sungai_selector = "Bilut"
    /\ dataset_selector = "cleaned"
    /\ visualization_selector = "histogram"
    /\ time_range_selector = "monthly"
    /\ parameter_selector = "TDS_Sensor"
    /\ ~FilesPresent("Bilut")
    /\ response = Placeholder
    /\ load_calls = 1

\* C7: a press with visualization "table" on a river whose files load renders a
\* grid whose columns are Timestamp followed by every declared non-time column
\* of the selected dataset, with one row per CSV record.
C7_TableShowsTimestamp ==
    [][(Pressed /\ visualization_selector = "table" /\ FilesPresent(sungai_selector))
        => /\ response'.kind = "DataTable"
           /\ response'.data.records = CsvRecords(sungai_selector, dataset_selector)
           /\ [i \in 1..Len(response'.columns) |-> response'.columns[i].id]
                 = <<"Timestamp">> \o DeclaredParameters(sungai_selector,
                                                           dataset_selector)]_vars

\* C8: every trend chart a press renders is drawn from the raw resampled table of
\* the selected river at the selected granularity, for either dataset kind.
C8_TrendReadsRaw ==
    [][(Pressed /\ visualization_selector = "trend" /\ response'.kind = "Graph")
        => /\ response'.figure = "line"
           /\ response'.data_frame.river = sungai_selector
           /\ response'.data_frame.dataset = "raw"
           /\ response'.data_frame.rule = RuleOf(time_range_selector)]_vars

C8_Witness ==
    /\ n_clicks = MaxClicks
    /\ sungai_selector = "KualaSG"
    /\ dataset_selector = "cleaned"
    /\ visualization_selector = "trend"
    /\ time_range_selector = "weekly"
    /\ response.kind = "Graph"
    /\ response.figure = "line"
    /\ response.data_frame.dataset = "raw"
    /\ response.data_frame.rule = "W"

CleanedWithinRaw ==
    \A r \in Rivers :
        Range(Tail(custom_variables[r]["cleaned"])) \subseteq Range(DeclaredParameters(r, "raw"))

\* C10: every parameter offered for dataset "cleaned" is a declared non-time
\* column of the same river's raw schema, so a trend pressed with dataset
\* "cleaned" and an offered parameter plots a column of the raw resampled table.
C10_CleanedParametersInRaw ==
    [][/\ CleanedWithinRaw
       /\ (pc = "open" /\ dataset_selector = "cleaned")
             => OptionValues(parameter_options)
                   \subseteq Range(DeclaredParameters(sungai_selector, "raw"))
       /\ (/\ Pressed
           /\ dataset_selector = "cleaned"
           /\ visualization_selector = "trend"
           /\ parameter_selector \in OptionValues(parameter_options)
           /\ FilesPresent(sungai_selector))
             => /\ response'.kind = "Graph"
                /\ response'.y = parameter_selector
                /\ response'.y \in Range(response'.data_frame.columns)]_vars

C10_Witness ==
    /\ n_clicks = MaxClicks
    /\ sungai_selector = "Kechau"
    /\ dataset_selector = "cleaned"
    /\ visualization_selector = "trend"
    /\ parameter_selector = "NH_Sensor"
    /\ response.kind = "Graph"
    /\ response.y = "NH_Sensor"
    /\ response.data_frame.dataset = "raw"
    /\ "NH_Sensor" \in Range(response.data_frame.columns)

====
